---- MODULE Spec2Model ----
(***************************************************************************)
(* The workflow engine of src/src/workflows/workflow_engine.py as a state  *)
(* machine: Workflow objects hold an insertion-ordered dict of Task        *)
(* records, WorkflowEngine.workflows is the registry, and execute_workflow *)
(* is followed statement by statement (one step per iteration of its for   *)
(* loop, one step for the return or the raise of a task's action, one step *)
(* for what follows the for loop).                                         *)
(***************************************************************************)
EXTENDS Integers, Sequences, FiniteSets, TLC

\* ------------------------------------------------------------ bounds
\* Calls of execute_workflow on a registered name in one behaviour. A
\* workflow has at most as many tasks as there are names for them.
MaxCalls == 2
\* Readings of the clock by EnterpriseAgent.execute_task in one behaviour
MaxClock == 4
\* The largest retry_attempts an APIClient is constructed with
MaxRetryAttempts == 3

\* ------------------------------------------------------------ values
None == "None"

\* TaskStatus (the enum's values)
PENDING == "pending"
RUNNING == "running"
COMPLETED == "completed"
FAILED == "failed"
SKIPPED == "skipped"
TaskStatus == {PENDING, RUNNING, COMPLETED, FAILED, SKIPPED}

\* Names a task, or a dependency, can have; names of workflows; the names
\* execute_workflow is called with; the Workflow objects of the heap.
TaskNames == {"A", "B", "C"}
WorkflowNames == {"orders"}
CallNames == WorkflowNames \cup {"nonexistent"}
ObjIds == {"w1"}

\* The callables given as a task's action: one returns a value, one returns
\* None, one raises an Exception whose str() is Message.
Callables == {"returns_value", "returns_none", "raises"}
Raises(action) == action = "raises"
ReturnValue(action) == IF action = "returns_value" THEN "value" ELSE None
Message(action) == "boom"

\* The dependencies argument of add_task: not supplied (None), or a list of
\* names.
DependencyArgs ==
    {[supplied |-> FALSE, names |-> {}]}
    \cup {[supplied |-> TRUE, names |-> s] : s \in SUBSET TaskNames}

\* The context argument of execute_workflow: not supplied (None), or the
\* caller's dict, with the keys it holds.
ContextArgs ==
    { [supplied |-> FALSE, keys |-> {}],
      [supplied |-> TRUE, keys |-> {}],
      [supplied |-> TRUE, keys |-> {"k"}] }

NoContext == [supplied |-> FALSE, keys |-> {}]
NoDependencies == [supplied |-> FALSE, names |-> {}]

\* ------------------------------------------------------------ state
VARIABLES
    heap,            \* the Workflow objects constructed so far, by object id
    workflows,       \* WorkflowEngine.workflows: name -> object id
    pc,              \* "idle", or the position in execute_workflow
    workflow_name,   \* execute_workflow's argument in the last call
    workflow,        \* execute_workflow's local: the object being executed
    context,         \* execute_workflow's local: "caller" or "fresh"
    dicts,           \* the caller's dict (whether supplied, its keys) and the fresh one
    executed_tasks,  \* execute_workflow's local set
    progress_made,   \* execute_workflow's local flag
    pos,             \* position of the for loop in workflow.tasks.items()
    invoked,         \* the task names whose action was called, in call order
    start,           \* the tasks of the executed workflow when the call began
    outcome,         \* how the last call ended
    results,         \* the dict the last call returned
    remaining,       \* the list in the RuntimeError of the last call
    calls,           \* the calls that began so far
    scan_start,      \* executed_tasks as it was when the current for loop began
    agent,           \* the EnterpriseAgent object: its name and version
    response,        \* what the last call of EnterpriseAgent.execute_task returned
    raised,          \* whether _process_task raised in that call
    now,             \* the clock read by datetime.now()
    client,          \* the APIClient object: its retry_attempts
    request          \* the last call of APIClient.get or post: its position,
                     \* its loop variable, the requests it made, how it ended

vars == <<heap, workflows, pc, workflow_name, workflow, context, dicts, executed_tasks,
          progress_made, pos, invoked, start, outcome, results, remaining,
          calls, scan_start, agent, response, raised, now, client, request>>

engineLocals == <<workflow_name, workflow, context, dicts, executed_tasks, progress_made, pos,
                  invoked, start, outcome, results, remaining, scan_start>>

engineVars == <<heap, workflows, pc, engineLocals, calls>>
agentVars == <<agent, response, raised, now>>
clientVars == <<client, request>>

\* ------------------------------------------------------------ dict
\* A Python dict keeps its keys in insertion order; assigning to a key it
\* holds keeps the key's place.
EmptyDict == [keys |-> <<>>, val |-> <<>>]
Has(d, k) == k \in DOMAIN d.val
DictSet(d, k, v) ==
    [keys |-> IF Has(d, k) THEN d.keys ELSE Append(d.keys, k),
     val |-> [x \in DOMAIN d.val \cup {k} |-> IF x = k THEN v ELSE d.val[x]]]
DictLen(d) == Len(d.keys)

\* ------------------------------------------------------------ Task, Workflow
Task(name, action, dependencies) ==
    [name |-> name, action |-> action, dependencies |-> dependencies,
     status |-> PENDING, result |-> None, error |-> None]

\* Workflow.__init__
NewWorkflow(name) == [name |-> name, tasks |-> EmptyDict]

\* `dependencies or []`: None and the empty list both give the empty list.
\* The list is only ever read by membership, so it is kept as the set of its
\* elements.
DependenciesOrEmpty(dependencies) ==
    IF dependencies.supplied THEN dependencies.names ELSE {}

\* (mutant: a task added under a name the workflow holds keeps the status,
\* the result and the error of the task it replaces)
AddTaskToKeepsFields(w, name, action, dependencies) ==
    [w EXCEPT !.tasks =
        DictSet(w.tasks, name,
            IF Has(w.tasks, name)
            THEN [Task(name, action, DependenciesOrEmpty(dependencies))
                    EXCEPT !.status = w.tasks.val[name].status,
                           !.result = w.tasks.val[name].result,
                           !.error = w.tasks.val[name].error]
            ELSE Task(name, action, DependenciesOrEmpty(dependencies)))]

\* Workflow.add_task
AddTaskTo(w, name, action, dependencies) ==
    [w EXCEPT !.tasks =
        DictSet(w.tasks, name, Task(name, action, DependenciesOrEmpty(dependencies)))]

\* Workflow.get_task: the task, or None
GetTask(w, name) == IF Has(w.tasks, name) THEN w.tasks.val[name] ELSE None

\* (mutant: registering forgets the entries under other names)
RegisterInDropsOthers(registry, obj, name) == [n \in {name} |-> obj]

\* WorkflowEngine.register_workflow
RegisterIn(registry, obj, name) ==
    [n \in DOMAIN registry \cup {name} |-> IF n = name THEN obj ELSE registry[n]]

\* ------------------------------------------------------------ execute_workflow
\* line 104
Registered(registry, name) == name \in DOMAIN registry

\* line 110, `context or {}`: an empty dict is falsy
ContextOrEmpty(arg) ==
    IF arg.supplied /\ arg.keys # {} THEN "caller" ELSE "fresh"

\* (mutant: the while loop ends with one task left)
LoopContinuesUntilOneLeft(executed, tasks) ==
    Cardinality(executed) + 1 < DictLen(tasks)

\* (mutant: the while loop tests <=)
LoopContinuesOffByOne(executed, tasks) == Cardinality(executed) <= DictLen(tasks)

\* line 114
LoopContinues(executed, tasks) == Cardinality(executed) < DictLen(tasks)

\* (mutant: a failed task is not taken as terminal)
AlreadyTerminalButFailed(status) == status \in {COMPLETED, SKIPPED}

\* (mutant: a skipped task is not taken as terminal)
AlreadyTerminalButSkipped(status) == status \in {COMPLETED, FAILED}

\* line 118
AlreadyTerminal(status) == status \in {COMPLETED, FAILED, SKIPPED}

\* (mutant: any() in the place of all())
DependenciesMetAny(task, executed) ==
    task.dependencies = {} \/ \E dep \in task.dependencies : dep \in executed

\* line 122
DependenciesMet(task, executed) == \A dep \in task.dependencies : dep \in executed

\* (mutant: the task is left running when its action has returned)
TaskReturnedStillRunning(task, value) == [task EXCEPT !.result = value]

\* (mutant: the return value is not stored)
TaskReturnedNoResult(task, value) == [task EXCEPT !.status = COMPLETED]

\* lines 127-128
TaskReturned(task, value) == [task EXCEPT !.result = value, !.status = COMPLETED]

\* (mutant: the message is not stored)
TaskRaisedNoMessage(task, message) == [task EXCEPT !.status = FAILED]

\* lines 133-134
TaskRaised(task, message) == [task EXCEPT !.status = FAILED, !.error = message]

\* (mutant: a failed task does not count as executed)
ExecutedOnRaiseDropped(executed, task_name) == executed

\* line 129, and line 136: a failed task counts as executed too
ExecutedOnReturn(executed, task_name) == executed \cup {task_name}
ExecutedOnRaise(executed, task_name) == executed \cup {task_name}

\* (mutant: the list is built newest first)
RECURSIVE RemainingReversedFrom(_, _, _)
RemainingReversedFrom(keys, executed, i) ==
    IF i > Len(keys) THEN <<>>
    ELSE RemainingReversedFrom(keys, executed, i + 1)
         \o (IF keys[i] \notin executed THEN <<keys[i]>> ELSE <<>>)
RemainingReversed(tasks, executed) == RemainingReversedFrom(tasks.keys, executed, 1)

\* line 141
RECURSIVE RemainingFrom(_, _, _)
RemainingFrom(keys, executed, i) ==
    IF i > Len(keys) THEN <<>>
    ELSE (IF keys[i] \notin executed THEN <<keys[i]>> ELSE <<>>)
         \o RemainingFrom(keys, executed, i + 1)
Remaining(tasks, executed) == RemainingFrom(tasks.keys, executed, 1)

\* lines 145-152
CollectResults(tasks) ==
    [n \in DOMAIN tasks.val |->
        [status |-> tasks.val[n].status,
         result |-> tasks.val[n].result,
         error |-> tasks.val[n].error]]

\* ------------------------------------------------------------ initial state
Init ==
    /\ heap = <<>>
    /\ workflows = <<>>
    /\ pc = "idle"
    /\ workflow_name = None
    /\ workflow = None
    /\ context = None
    /\ dicts = [supplied |-> FALSE, caller |-> {}, fresh |-> {}]
    /\ executed_tasks = {}
    /\ progress_made = FALSE
    /\ pos = 0
    /\ invoked = <<>>
    /\ start = EmptyDict
    /\ outcome = "none"
    /\ results = <<>>
    /\ remaining = <<>>
    /\ calls = 0
    /\ scan_start = {}
    /\ agent = <<>>
    /\ response = <<>>
    /\ raised = FALSE
    /\ now = 0
    /\ client = <<>>
    /\ request = [pc |-> "idle", method |-> None, endpoint |-> None, attempt |-> 0,
                  sent |-> <<>>, outcome |-> "none", value |-> None]

\* ------------------------------------------------------------ the caller's steps
\* outcome, results, remaining, invoked, start and the locals describe the
\* last call; they are cleared when the caller changes a task afterwards.
ForgetCall ==
    /\ workflow_name' = None
    /\ workflow' = None
    /\ context' = None
    /\ dicts' = [supplied |-> FALSE, caller |-> {}, fresh |-> {}]
    /\ executed_tasks' = {}
    /\ progress_made' = FALSE
    /\ pos' = 0
    /\ invoked' = <<>>
    /\ start' = EmptyDict
    /\ scan_start' = {}
    /\ outcome' = "none"
    /\ results' = <<>>
    /\ remaining' = <<>>

\* Workflow(name)
Construct(o, name) ==
    /\ pc = "idle"
    /\ o \notin DOMAIN heap
    /\ heap' = [x \in DOMAIN heap \cup {o} |-> IF x = o THEN NewWorkflow(name) ELSE heap[x]]
    /\ UNCHANGED <<workflows, pc, engineLocals, calls>>
    /\ UNCHANGED <<agentVars, clientVars>>

\* workflow.add_task(name, action, dependencies)
add_task(o, name, action, dependencies) ==
    /\ pc = "idle"
    /\ o \in DOMAIN heap
    /\ heap' = [heap EXCEPT ![o] = AddTaskTo(heap[o], name, action, dependencies)]
    /\ ForgetCall
    /\ UNCHANGED <<workflows, pc, calls>>
    /\ UNCHANGED <<agentVars, clientVars>>

\* engine.register_workflow(workflow)
register_workflow(o) ==
    /\ pc = "idle"
    /\ o \in DOMAIN heap
    /\ workflows' = RegisterIn(workflows, o, heap[o].name)
    /\ UNCHANGED <<heap, pc, engineLocals, calls>>
    /\ UNCHANGED <<agentVars, clientVars>>

\* A task pre-seeded as terminal: the caller assigns the fields of a Task
\* that is still pending (Completed with a result, Failed with an error,
\* Skipped with neither).
Seeds ==
    { [status |-> COMPLETED, result |-> "seeded", error |-> None],
      [status |-> FAILED, result |-> None, error |-> "seeded"],
      [status |-> SKIPPED, result |-> None, error |-> None] }
PreSeed(o, name, seed) ==
    /\ pc = "idle"
    /\ o \in DOMAIN heap
    /\ Has(heap[o].tasks, name)
    /\ heap[o].tasks.val[name].status = PENDING
    /\ heap' = [heap EXCEPT ![o].tasks.val[name] =
                   [@ EXCEPT !.status = seed.status, !.result = seed.result,
                             !.error = seed.error]]
    /\ ForgetCall
    /\ UNCHANGED <<workflows, pc, calls>>
    /\ UNCHANGED <<agentVars, clientVars>>

\* ------------------------------------------------------------ execute_workflow, step by step
\* (mutant: an unknown name gives an empty report)
CallNotFoundEmptyReport(name, arg) ==
    /\ pc = "idle"
    /\ ~Registered(workflows, name)
    /\ workflow_name' = name
    /\ outcome' = "returned"
    /\ results' = <<>>
    /\ remaining' = <<>>
    /\ invoked' = <<>>
    /\ workflow' = None
    /\ context' = None
    /\ dicts' = [supplied |-> arg.supplied, caller |-> arg.keys, fresh |-> {}]
    /\ executed_tasks' = {}
    /\ progress_made' = FALSE
    /\ pos' = 0
    /\ start' = EmptyDict
    /\ scan_start' = {}
    /\ UNCHANGED <<heap, workflows, pc, calls>>
    /\ UNCHANGED <<agentVars, clientVars>>

\* lines 104-105: the name is not registered, ValueError
CallNotFound(name, arg) ==
    /\ pc = "idle"
    /\ ~Registered(workflows, name)
    /\ workflow_name' = name
    /\ outcome' = "ValueError"
    /\ results' = <<>>
    /\ remaining' = <<>>
    /\ invoked' = <<>>
    /\ workflow' = None
    /\ context' = None
    /\ dicts' = [supplied |-> arg.supplied, caller |-> arg.keys, fresh |-> {}]
    /\ executed_tasks' = {}
    /\ progress_made' = FALSE
    /\ pos' = 0
    /\ start' = EmptyDict
    /\ scan_start' = {}
    /\ UNCHANGED <<heap, workflows, pc, calls>>
    /\ UNCHANGED <<agentVars, clientVars>>

\* lines 107-111: the locals of a call on a registered name
CallBegin(name, arg) ==
    /\ pc = "idle"
    /\ calls < MaxCalls
    /\ Registered(workflows, name)
    /\ calls' = calls + 1
    /\ workflow_name' = name
    /\ workflow' = workflows[name]
    /\ context' = ContextOrEmpty(arg)
    /\ dicts' = [supplied |-> arg.supplied, caller |-> arg.keys, fresh |-> {}]
    /\ executed_tasks' = {}
    /\ progress_made' = FALSE
    /\ pos' = 0
    /\ invoked' = <<>>
    /\ start' = heap[workflows[name]].tasks
    /\ scan_start' = {}
    /\ outcome' = "running"
    /\ results' = <<>>
    /\ remaining' = <<>>
    /\ pc' = "while"
    /\ UNCHANGED <<heap, workflows>>
    /\ UNCHANGED <<agentVars, clientVars>>

\* line 114-115 when the loop goes on, lines 145-157 when it ends
WhileTest ==
    /\ pc = "while"
    /\ IF LoopContinues(executed_tasks, heap[workflow].tasks)
       THEN /\ progress_made' = FALSE
            /\ pos' = 1
            /\ scan_start' = executed_tasks
            /\ pc' = "for"
            /\ UNCHANGED <<outcome, results>>
       ELSE /\ results' = CollectResults(heap[workflow].tasks)
            /\ outcome' = "returned"
            /\ pc' = "idle"
            /\ UNCHANGED <<progress_made, pos, scan_start>>
    /\ UNCHANGED <<heap, workflows, workflow_name, workflow, context, dicts, executed_tasks,
                   invoked, start, remaining, calls>>
    /\ UNCHANGED <<agentVars, clientVars>>

\* (mutant: the for loop goes through the tasks newest first)
TaskAtReversed(i) ==
    heap[workflow].tasks.val[
        heap[workflow].tasks.keys[DictLen(heap[workflow].tasks) + 1 - i]]

\* line 117: the i-th item of workflow.tasks.items()
TaskAt(i) == heap[workflow].tasks.val[heap[workflow].tasks.keys[i]]

\* lines 117-119: the task is terminal, continue
ForSkip ==
    /\ pc = "for"
    /\ pos <= DictLen(heap[workflow].tasks)
    /\ AlreadyTerminal(TaskAt(pos).status)
    /\ pos' = pos + 1
    /\ UNCHANGED <<heap, workflows, pc, workflow_name, workflow, context, dicts, executed_tasks,
                   progress_made, invoked, start, outcome, results, remaining,
                   calls>>
    /\ UNCHANGED <<scan_start, agentVars, clientVars>>

\* line 122: some dependency is not in executed_tasks, next task
ForNotReady ==
    /\ pc = "for"
    /\ pos <= DictLen(heap[workflow].tasks)
    /\ ~AlreadyTerminal(TaskAt(pos).status)
    /\ ~DependenciesMet(TaskAt(pos), executed_tasks)
    /\ pos' = pos + 1
    /\ UNCHANGED <<heap, workflows, pc, workflow_name, workflow, context, dicts, executed_tasks,
                   progress_made, invoked, start, outcome, results, remaining,
                   calls>>
    /\ UNCHANGED <<scan_start, agentVars, clientVars>>

\* lines 122-127: the task is ready, it is set running and its action is
\* called with the context (the action writes its task's name into it)
ForStart ==
    /\ pc = "for"
    /\ pos <= DictLen(heap[workflow].tasks)
    /\ ~AlreadyTerminal(TaskAt(pos).status)
    /\ DependenciesMet(TaskAt(pos), executed_tasks)
    /\ heap' = [heap EXCEPT ![workflow].tasks.val[TaskAt(pos).name].status = RUNNING]
    /\ invoked' = Append(invoked, TaskAt(pos).name)
    /\ dicts' = [dicts EXCEPT ![context] = @ \cup {TaskAt(pos).name}]
    /\ pc' = "action"
    /\ UNCHANGED <<workflows, workflow_name, workflow, context, executed_tasks, progress_made,
                   pos, start, outcome, results, remaining, calls>>
    /\ UNCHANGED <<scan_start, agentVars, clientVars>>

\* lines 127-130: the action returned
ActionReturns ==
    /\ pc = "action"
    /\ ~Raises(TaskAt(pos).action)
    /\ heap' = [heap EXCEPT ![workflow].tasks.val[TaskAt(pos).name] =
                   TaskReturned(@, ReturnValue(TaskAt(pos).action))]
    /\ executed_tasks' = ExecutedOnReturn(executed_tasks, TaskAt(pos).name)
    /\ progress_made' = TRUE
    /\ pos' = pos + 1
    /\ pc' = "for"
    /\ UNCHANGED <<workflows, workflow_name, workflow, context, dicts, invoked, start, outcome,
                   results, remaining, calls>>
    /\ UNCHANGED <<scan_start, agentVars, clientVars>>

\* lines 132-137: the action raised
ActionRaises ==
    /\ pc = "action"
    /\ Raises(TaskAt(pos).action)
    /\ heap' = [heap EXCEPT ![workflow].tasks.val[TaskAt(pos).name] =
                   TaskRaised(@, Message(TaskAt(pos).action))]
    /\ executed_tasks' = ExecutedOnRaise(executed_tasks, TaskAt(pos).name)
    /\ progress_made' = TRUE
    /\ pos' = pos + 1
    /\ pc' = "for"
    /\ UNCHANGED <<workflows, workflow_name, workflow, context, dicts, invoked, start, outcome,
                   results, remaining, calls>>
    /\ UNCHANGED <<scan_start, agentVars, clientVars>>

\* lines 139-142: the for loop is over; RuntimeError when it made no
\* progress, else back to the while test
ForEnd ==
    /\ pc = "for"
    /\ pos > DictLen(heap[workflow].tasks)
    /\ IF ~progress_made
       THEN /\ remaining' = Remaining(heap[workflow].tasks, executed_tasks)
            /\ outcome' = "RuntimeError"
            /\ pc' = "idle"
       ELSE /\ pc' = "while"
            /\ UNCHANGED <<remaining, outcome>>
    /\ UNCHANGED <<heap, workflows, workflow_name, workflow, context, dicts, executed_tasks,
                   progress_made, pos, invoked, start, results, calls>>
    /\ UNCHANGED <<scan_start, agentVars, clientVars>>

\* ------------------------------------------------------------ specification
\* The steps of a call of execute_workflow that has begun
Execute ==
    \/ WhileTest
    \/ ForSkip
    \/ ForNotReady
    \/ ForStart
    \/ ActionReturns
    \/ ActionRaises
    \/ ForEnd

\* add_task as the caller uses it while it builds a workflow: before the
\* first call, with a name the workflow does not hold yet
BuildTask(o, name, action, dependencies) ==
    /\ calls = 0
    /\ o \in DOMAIN heap
    /\ ~Has(heap[o].tasks, name)
    /\ add_task(o, name, action, dependencies)

\* Workflows of up to three tasks over TaskNames whose actions return a value
\* or raise, built before the first call, executed and executed again with
\* no context supplied.
SpecCallables == {"returns_value", "raises"}
Next ==
    \/ \E o \in ObjIds, name \in WorkflowNames : Construct(o, name)
    \/ \E o \in ObjIds, name \in TaskNames, action \in SpecCallables,
          dependencies \in DependencyArgs :
            BuildTask(o, name, action, dependencies)
    \/ \E o \in ObjIds : register_workflow(o)
    \/ \E name \in CallNames : CallNotFound(name, NoContext)
    \/ \E name \in CallNames : CallBegin(name, NoContext)
    \/ Execute

Spec == Init /\ [][Next]_vars

\* Every call that has begun takes its next step: execute_workflow runs on
\* the caller's thread until it returns or raises.
FairSpec == Spec /\ WF_vars(Execute)

\* add_task before the first call, under a new name or one the workflow
\* holds already
RebuildTask(o, name, action, dependencies) ==
    /\ calls = 0
    /\ add_task(o, name, action, dependencies)

\* Workflows over SeedTaskNames with any of the Callables, to which tasks are
\* added again under the same name as well, and whose tasks the caller may
\* pre-seed as terminal before and between calls.
SeedTaskNames == {"A", "B"}
SeedNext ==
    \/ \E o \in ObjIds, name \in WorkflowNames : Construct(o, name)
    \/ \E o \in ObjIds, name \in SeedTaskNames, action \in Callables,
          dependencies \in DependencyArgs :
            RebuildTask(o, name, action, dependencies)
    \/ \E o \in ObjIds : register_workflow(o)
    \/ \E o \in ObjIds, name \in SeedTaskNames, seed \in Seeds :
            PreSeed(o, name, seed)
    \/ \E name \in CallNames : CallNotFound(name, NoContext)
    \/ \E name \in CallNames : CallBegin(name, NoContext)
    \/ Execute

SeedSpec == Init /\ [][SeedNext]_vars

\* Two Workflow objects, constructed under the same name or under different
\* names, with up to two tasks each, registered in any order before and
\* between calls.
RegObjIds == {"w1", "w2"}
RegWorkflowNames == {"orders", "billing"}
RegTaskNames == {"A", "B"}
RegDependencyArgs == {NoDependencies, [supplied |-> TRUE, names |-> {"A"}]}
RegNext ==
    \/ \E o \in RegObjIds, name \in RegWorkflowNames : Construct(o, name)
    \/ \E o \in RegObjIds, name \in RegTaskNames, action \in SpecCallables,
          dependencies \in RegDependencyArgs :
            BuildTask(o, name, action, dependencies)
    \/ \E o \in RegObjIds : register_workflow(o)
    \/ \E name \in RegWorkflowNames : CallNotFound(name, NoContext)
    \/ \E name \in RegWorkflowNames : CallBegin(name, NoContext)
    \/ Execute

RegSpec == Init /\ [][RegNext]_vars

\* Workflows of up to two tasks executed with no context, with the caller's
\* empty dict and with a dict of the caller that holds a key.
CtxTaskNames == {"A", "B"}
CtxDependencyArgs == {NoDependencies, [supplied |-> TRUE, names |-> {"A"}]}
CtxNext ==
    \/ \E o \in ObjIds, name \in WorkflowNames : Construct(o, name)
    \/ \E o \in ObjIds, name \in CtxTaskNames, action \in SpecCallables,
          dependencies \in CtxDependencyArgs :
            BuildTask(o, name, action, dependencies)
    \/ \E o \in ObjIds : register_workflow(o)
    \/ \E name \in CallNames, arg \in ContextArgs : CallNotFound(name, arg)
    \/ \E name \in CallNames, arg \in ContextArgs : CallBegin(name, arg)
    \/ Execute

CtxSpec == Init /\ [][CtxNext]_vars

\* Workflows of up to two tasks to which the caller adds tasks before and
\* between calls, under new names and under names the workflow holds, with
\* no dependencies argument, an empty list, a task's name or a name that is
\* no task.
AddTaskNames == {"A", "B"}
AddDependencyArgs ==
    { NoDependencies,
      [supplied |-> TRUE, names |-> {}],
      [supplied |-> TRUE, names |-> {"A"}],
      [supplied |-> TRUE, names |-> {"C"}] }
AddNext ==
    \/ \E o \in ObjIds, name \in WorkflowNames : Construct(o, name)
    \/ \E o \in ObjIds, name \in AddTaskNames, action \in SpecCallables,
          dependencies \in AddDependencyArgs :
            add_task(o, name, action, dependencies)
    \/ \E o \in ObjIds : register_workflow(o)
    \/ \E name \in CallNames : CallNotFound(name, NoContext)
    \/ \E name \in CallNames : CallBegin(name, NoContext)
    \/ Execute

AddSpec == Init /\ [][AddNext]_vars

\* ------------------------------------------------------------ EnterpriseAgent
\* A configuration dict, by the dotted path of its leaves. The config_dict
\* argument of the constructor: not supplied, or one of these dicts, the
\* empty one included. (config_path and the logging section reach the file
\* system and are left out.)
ConfigDicts ==
    { [k \in {} |-> ""],
      [k \in {"agent.name", "agent.version"} |->
            IF k = "agent.name" THEN "Test Agent" ELSE "1.0.0"],
      [k \in {"agent.name"} |-> "Sales Agent"],
      [k \in {"agent.version"} |-> "2.0.0"],
      [k \in {"logging.log_level"} |-> "INFO"] }
ConfigArgs ==
    {[supplied |-> FALSE, dict |-> [k \in {} |-> ""]]}
    \cup {[supplied |-> TRUE, dict |-> d] : d \in ConfigDicts}

\* lines 59-64
DefaultConfig ==
    [k \in {"agent.name", "agent.version"} |->
        IF k = "agent.name" THEN "Enterprise Agent" ELSE "1.0.0"]

\* _load_config, lines 47-48 and 58-64: an empty dict is falsy
LoadConfig(config_dict) ==
    IF config_dict.supplied /\ DOMAIN config_dict.dict # {}
    THEN config_dict.dict
    ELSE DefaultConfig

\* lines 36-37: config.get("agent", {}).get(key, default)
ConfigGet(config, path, default) ==
    IF path \in DOMAIN config THEN config[path] ELSE default

\* The task descriptions given to execute_task
TaskDescriptions == {"Test task", "Process order", ""}

\* What _process_task does: the placeholder of lines 137-141 returns, an
\* implementation put in its place may raise an Exception.
Processings == {"placeholder", "raises"}
ProcessingRaises(processing) == processing = "raises"
ProcessingMessage(processing) == "processing failed"

\* line 101, `context or {}`: the keys of the dict _process_task is given
ContextKeysOrEmpty(arg) == IF arg.supplied THEN arg.keys ELSE {}

\* _process_task, lines 137-141
ProcessTask(task_description, context_keys) ==
    [task |-> task_description, context |-> context_keys, processed |-> TRUE]

\* lines 104-109
SuccessRecord(result, timestamp, name) ==
    [status |-> "success", result |-> result, timestamp |-> timestamp,
     agent |-> name]

\* (mutant: a failure is reported with the status failed)
ErrorRecordFailed(message, timestamp, name) ==
    [status |-> "failed", error |-> message, timestamp |-> timestamp,
     agent |-> name]

\* lines 113-118
ErrorRecord(message, timestamp, name) ==
    [status |-> "error", error |-> message, timestamp |-> timestamp,
     agent |-> name]

Constructed == DOMAIN agent # {}

\* EnterpriseAgent(config_dict=...), lines 32-37
EnterpriseAgent(config_dict) ==
    /\ ~Constructed
    /\ agent' = [config |-> LoadConfig(config_dict),
                 name |-> ConfigGet(LoadConfig(config_dict), "agent.name",
                                    "Enterprise Agent"),
                 version |-> ConfigGet(LoadConfig(config_dict), "agent.version",
                                       "1.0.0")]
    /\ UNCHANGED <<response, raised, now>>
    /\ UNCHANGED <<engineVars, clientVars>>

\* agent.execute_task(task_description, context), lines 97-118: the record
\* of the try block when _process_task returns, the record of the except
\* block when it raises; datetime.now() reads the clock, which goes on.
execute_task(task_description, arg, processing) ==
    /\ Constructed
    /\ now < MaxClock
    /\ raised' = ProcessingRaises(processing)
    /\ response' =
            IF ProcessingRaises(processing)
            THEN ErrorRecord(ProcessingMessage(processing), now, agent.name)
            ELSE SuccessRecord(ProcessTask(task_description, ContextKeysOrEmpty(arg)),
                               now, agent.name)
    /\ now' = now + 1
    /\ UNCHANGED agent
    /\ UNCHANGED <<engineVars, clientVars>>

AgentNext ==
    \/ \E config_dict \in ConfigArgs : EnterpriseAgent(config_dict)
    \/ \E task_description \in TaskDescriptions, arg \in ContextArgs,
          processing \in Processings :
            execute_task(task_description, arg, processing)

AgentSpec == Init /\ [][AgentNext]_vars

\* ------------------------------------------------------------ APIClient
\* The default of retry_attempts (line 18)
DefaultRetryAttempts == 3

\* The retry_attempts argument of the constructor: not supplied, or an int
RetryAttemptsArgs ==
    {[supplied |-> FALSE, value |-> 0]}
    \cup {[supplied |-> TRUE, value |-> n] : n \in 0..MaxRetryAttempts}

\* The endpoints get and post are called with
Endpoints == {"/users", "orders"}

\* The subclasses of requests.exceptions.RequestException a request fails
\* with: requests.get or post raises ConnectionError or Timeout,
\* raise_for_status raises HTTPError
RequestErrors == {"ConnectionError", "Timeout", "HTTPError"}

ClientConstructed == DOMAIN client # {}

\* APIClient(base_url, retry_attempts=...), line 32
APIClient(arg) ==
    /\ ~ClientConstructed
    /\ client' = [retry_attempts |->
                    IF arg.supplied THEN arg.value ELSE DefaultRetryAttempts]
    /\ UNCHANGED request
    /\ UNCHANGED <<engineVars, agentVars>>

\* client.get(endpoint), lines 35-39: the call begins and enters its for
\* loop
get(endpoint) ==
    /\ ClientConstructed
    /\ request.pc = "idle"
    /\ request' = [pc |-> "loop", method |-> "get", endpoint |-> endpoint,
                   attempt |-> 0, sent |-> <<>>, outcome |-> "running",
                   value |-> None]
    /\ UNCHANGED client
    /\ UNCHANGED <<engineVars, agentVars>>

\* client.post(endpoint), lines 55-59: the call begins and enters its for
\* loop
post(endpoint) ==
    /\ ClientConstructed
    /\ request.pc = "idle"
    /\ request' = [pc |-> "loop", method |-> "post", endpoint |-> endpoint,
                   attempt |-> 0, sent |-> <<>>, outcome |-> "running",
                   value |-> None]
    /\ UNCHANGED client
    /\ UNCHANGED <<engineVars, agentVars>>

\* lines 39 and 59: `for attempt in range(self.retry_attempts)` has a next
\* value
InRange(attempt, retry_attempts) == attempt < retry_attempts

\* lines 50 and 71
LastAttempt(attempt, retry_attempts) == attempt = retry_attempts - 1

\* lines 41-48 and 61-69: the request is made and succeeds, its json is
\* returned
RequestSucceeds ==
    /\ request.pc = "loop"
    /\ InRange(request.attempt, client.retry_attempts)
    /\ request' = [request EXCEPT !.sent = Append(@, "response"),
                                  !.outcome = "returned",
                                  !.value = "json",
                                  !.pc = "idle"]
    /\ UNCHANGED client
    /\ UNCHANGED <<engineVars, agentVars>>

\* lines 49-53 and 70-74: the request is made and fails with a
\* RequestException, which is raised again after the last attempt and
\* followed by the next attempt otherwise
RequestFails(error) ==
    /\ request.pc = "loop"
    /\ InRange(request.attempt, client.retry_attempts)
    /\ IF LastAttempt(request.attempt, client.retry_attempts)
       THEN request' = [request EXCEPT !.sent = Append(@, error),
                                       !.outcome = "raised",
                                       !.value = error,
                                       !.pc = "idle"]
       ELSE request' = [request EXCEPT !.sent = Append(@, error),
                                       !.attempt = @ + 1]
    /\ UNCHANGED client
    /\ UNCHANGED <<engineVars, agentVars>>

\* The for loop is exhausted: the function ends without a return statement
\* and gives None
RequestLoopEnds ==
    /\ request.pc = "loop"
    /\ ~InRange(request.attempt, client.retry_attempts)
    /\ request' = [request EXCEPT !.outcome = "returned None", !.pc = "idle"]
    /\ UNCHANGED client
    /\ UNCHANGED <<engineVars, agentVars>>

ClientNext ==
    \/ \E arg \in RetryAttemptsArgs : APIClient(arg)
    \/ \E endpoint \in Endpoints : get(endpoint)
    \/ \E endpoint \in Endpoints : post(endpoint)
    \/ RequestSucceeds
    \/ \E error \in RequestErrors : RequestFails(error)
    \/ RequestLoopEnds

ClientSpec == Init /\ [][ClientNext]_vars

\* ------------------------------------------------------------ dependency graphs
Keys(d) == DOMAIN d.val
DependenciesOf(d, n) == IF n \in Keys(d) THEN d.val[n].dependencies ELSE {}

\* The names reached from the names of S by at most k dependency edges
RECURSIVE DependsOnWithin(_, _, _)
DependsOnWithin(d, S, k) ==
    IF k = 0 THEN S
    ELSE DependsOnWithin(d, S \cup UNION {DependenciesOf(d, n) : n \in S}, k - 1)
TransitiveDependencies(d, n) ==
    DependsOnWithin(d, DependenciesOf(d, n), Cardinality(Keys(d)))

FullyDefined(d) == \A n \in Keys(d) : d.val[n].dependencies \subseteq Keys(d)
OnCycle(d, n) == n \in TransitiveDependencies(d, n)
Acyclic(d) == \A n \in Keys(d) : ~OnCycle(d, n)
AllPending(d) == \A n \in Keys(d) : d.val[n].status = PENDING

\* A call that began has ended, and no task was changed since
CallOver == pc = "idle" /\ outcome \in {"returned", "RuntimeError"}
\* The tasks of the workflow of the call
Tasks == heap[workflow].tasks

\* ------------------------------------------------------------ claims

\* C1: a workflow whose tasks all start pending and whose dependency graph is
\* acyclic and fully defined is executed to the end: the call returns, raising
\* nothing, a report with one entry per task of the workflow, each completed
\* or failed; and every call that has begun ends.
C1_Report ==
    (CallOver /\ AllPending(start) /\ Acyclic(start) /\ FullyDefined(start))
    => /\ outcome = "returned"
       /\ DOMAIN results = Keys(start)
       /\ \A n \in Keys(start) : results[n].status \in {COMPLETED, FAILED}
C1_Terminates == []C1_Report /\ ((pc # "idle") ~> (pc = "idle"))
C1_Witness ==
    /\ CallOver /\ AllPending(start) /\ Acyclic(start) /\ FullyDefined(start)
    /\ Cardinality(Keys(start)) = 3
    /\ \E n \in Keys(start) : Cardinality(start.val[n].dependencies) = 2
    /\ \E n \in Keys(start) : results[n].status = FAILED
    /\ \E n \in Keys(start) : results[n].status = COMPLETED

Range(seq) == {seq[i] : i \in 1..Len(seq)}
\* A call of execute_workflow that began is running or has ended
InCall == pc # "idle" \/ CallOver
\* The task ran in this call and ended completed or failed
ResolvedInCall(n) ==
    /\ n \in Keys(Tasks)
    /\ n \in Range(invoked)
    /\ Tasks.val[n].status \in {COMPLETED, FAILED}

\* C2: during execute_workflow a task leaves pending, and its action is
\* called, only when every name in its dependencies is a task of the same
\* workflow that is already completed or failed; a task that depends on
\* itself is never started.
C2_DependenciesFirst ==
    InCall =>
        \A n \in Keys(Tasks) :
            (n \in Range(invoked) \/ Tasks.val[n].status # start.val[n].status)
            => /\ \A dep \in Tasks.val[n].dependencies :
                    /\ dep \in Keys(Tasks)
                    /\ Tasks.val[dep].status \in {COMPLETED, FAILED}
               /\ n \notin Tasks.val[n].dependencies
C2_Witness ==
    /\ pc = "action"
    /\ Cardinality(TaskAt(pos).dependencies) = 2
    /\ \E dep \in TaskAt(pos).dependencies : Tasks.val[dep].status = FAILED
    /\ \E dep \in TaskAt(pos).dependencies : Tasks.val[dep].status = COMPLETED

\* C3: a failed dependency does not block its dependents: when the call has
\* ended, every task that started pending, has a dependency that failed in
\* this call and has all its dependencies resolved in this call had its
\* action called, and is completed or failed as its own action returned or
\* raised (never skipped, never left pending).
C3_FailedDependencyDoesNotBlock ==
    CallOver =>
        \A n \in Keys(Tasks) :
            ( /\ start.val[n].status = PENDING
              /\ \E d \in Tasks.val[n].dependencies :
                    ResolvedInCall(d) /\ Tasks.val[d].status = FAILED
              /\ \A d \in Tasks.val[n].dependencies : ResolvedInCall(d) )
            => /\ n \in Range(invoked)
               /\ Tasks.val[n].status =
                    IF Raises(Tasks.val[n].action) THEN FAILED ELSE COMPLETED
C3_Witness ==
    /\ CallOver
    /\ \E n \in Keys(Tasks), d \in Keys(Tasks) :
        /\ n # d
        /\ d \in Tasks.val[n].dependencies
        /\ d \in Range(invoked)
        /\ Tasks.val[d].status = FAILED
        /\ n \in Range(invoked)
        /\ Tasks.val[n].status = COMPLETED

\* C4: a task's failure is not a failure of execute_workflow: the step in
\* which an action raises goes on with the for loop, and a workflow whose
\* tasks start pending with an acyclic, fully defined graph returns a report
\* whatever actions raise, all of them included, in which every task whose
\* action raises is failed with the message of its exception and every other
\* task is completed.
C4_Report ==
    (CallOver /\ AllPending(start) /\ Acyclic(start) /\ FullyDefined(start))
    => /\ outcome = "returned"
       /\ \A n \in Keys(start) :
            IF Raises(start.val[n].action)
            THEN /\ results[n].status = FAILED
                 /\ results[n].error = Message(start.val[n].action)
            ELSE /\ results[n].status = COMPLETED
                 /\ results[n].error = None
C5_Cycle ==
    /\ InCall =>
         \A n \in Keys(Tasks) :
            OnCycle(Tasks, n)
            => n \notin Range(invoked) /\ Tasks.val[n].status = start.val[n].status
    /\ (CallOver /\ \E n \in Keys(start) : OnCycle(start, n))
       => /\ outcome = "RuntimeError"
          /\ results = <<>>
          /\ \A n \in Keys(start) : OnCycle(start, n) => n \in Range(remaining)
          /\ remaining = SelectSeq(start.keys, LAMBDA k : k \in Range(remaining))
          /\ ( /\ start.keys = <<"A", "B">>
               /\ start.val["A"].dependencies = {"B"}
               /\ start.val["B"].dependencies = {"A"} )
             => remaining = <<"A", "B">>
C5_CycleFails ==
    /\ []C5_Cycle
    /\ (pc # "idle" /\ \E n \in Keys(Tasks) : OnCycle(Tasks, n))
          ~> (pc = "idle" /\ outcome = "RuntimeError")
C5_Witness ==
    /\ CallOver /\ outcome = "RuntimeError"
    /\ start.keys = <<"A", "B">>
    /\ start.val["A"].dependencies = {"B"}
    /\ start.val["B"].dependencies = {"A"}
    /\ remaining = <<"A", "B">>
    /\ invoked = <<>>

\* C6: add_task and register_workflow take a dependency that names no task
\* of the workflow (neither has a failing branch); the call of
\* execute_workflow on such a workflow ends with the RuntimeError and no
\* report, and the list of the error holds every task that names such a
\* dependency or depends on one that does, none of which was run.
C6_DanglingDependency ==
    (CallOver /\ ~FullyDefined(start))
    => /\ outcome = "RuntimeError"
       /\ results = <<>>
       /\ \A n \in Keys(start) :
            ~(TransitiveDependencies(start, n) \subseteq Keys(start))
            => n \in Range(remaining) /\ n \notin Range(invoked)
C6_Witness ==
    /\ CallOver /\ outcome = "RuntimeError"
    /\ \E n \in Keys(start), m \in Keys(start) :
        /\ n # m
        /\ ~(start.val[n].dependencies \subseteq Keys(start))
        /\ start.val[m].dependencies = {n}
        /\ remaining = <<n, m>>

\* C7: execute_workflow called with a name that is not in the registry ends
\* at once with the ValueError: no action is called, no report is returned,
\* and the registry and every task of every workflow are as before.
C7_NotFound ==
    /\ [](outcome = "ValueError"
            => pc = "idle" /\ invoked = <<>> /\ results = <<>> /\ remaining = <<>>)
    /\ [][( /\ pc = "idle"
            /\ workflow_name' # None
            /\ workflow_name' # workflow_name
            /\ workflow_name' \notin DOMAIN workflows )
            => /\ outcome' = "ValueError"
               /\ pc' = "idle"
               /\ heap' = heap
               /\ workflows' = workflows]_vars
C7_Witness ==
    /\ outcome = "ValueError"
    /\ workflow_name = "nonexistent"
    /\ "orders" \in DOMAIN workflows
    /\ DictLen(heap[workflows["orders"]].tasks) = 3

\* C8 as claimed: in every returned report a task's result is non-null
\* exactly when it is completed, and its error non-null exactly when it is
\* failed, an action that returns None included.
C8_ResultIffCompleted ==
    (CallOver /\ outcome = "returned")
    => \A n \in DOMAIN results :
        /\ results[n].result # None <=> results[n].status = COMPLETED
        /\ results[n].error # None <=> results[n].status = FAILED

\* C8, amended: in every returned report every task is completed or failed;
\* its error is non-null exactly when it is failed; its result is the value
\* its action returned when it is completed and null when it is failed, so
\* the result of a completed task whose action returned None is null; result
\* and error are never both set.
C8_ResultIsReturnValue ==
    (CallOver /\ outcome = "returned")
    => \A n \in DOMAIN results :
        /\ results[n].status \in {COMPLETED, FAILED}
        /\ results[n].error # None <=> results[n].status = FAILED
        /\ results[n].status = COMPLETED
              => results[n].result = ReturnValue(start.val[n].action)
        /\ results[n].status = FAILED => results[n].result = None
        /\ ~(results[n].result # None /\ results[n].error # None)
C8_Witness ==
    /\ CallOver /\ outcome = "returned"
    /\ \E n \in DOMAIN results :
        results[n].status = COMPLETED /\ results[n].result = None
    /\ \E n \in DOMAIN results :
        \/ results[n].status = COMPLETED /\ results[n].result # None
        \/ results[n].status = FAILED

\* C9 as claimed: executing again a workflow whose tasks are all terminal
\* from an earlier call calls no action and returns the report of the
\* retained statuses, results and errors.
C9_ReexecutionReturns ==
    (CallOver /\ \A n \in Keys(start) :
                    start.val[n].status \in {COMPLETED, FAILED, SKIPPED})
    => /\ outcome = "returned"
       /\ invoked = <<>>
       /\ results = [n \in Keys(start) |->
                        [status |-> start.val[n].status,
                         result |-> start.val[n].result,
                         error |-> start.val[n].error]]

\* C10 as claimed: with tasks pre-seeded as terminal before the call, the
\* pre-seeded tasks are not run and keep their fields, they satisfy the
\* dependencies of their dependents, and the call runs every pending task of
\* an acyclic, fully defined workflow and returns a report of all tasks.
C10_PreSeededTolerated ==
    ( /\ CallOver /\ Acyclic(start) /\ FullyDefined(start)
      /\ \E n \in Keys(start) :
            start.val[n].status \in {COMPLETED, FAILED, SKIPPED} )
    => /\ outcome = "returned"
       /\ DOMAIN results = Keys(start)
       /\ \A n \in Keys(start) :
            IF start.val[n].status = PENDING
            THEN n \in Range(invoked)
            ELSE n \notin Range(invoked) /\ Tasks.val[n] = start.val[n]

\* C11: register_workflow stores the workflow under its name, in the place of
\* the entry that name had, and leaves the entries of other names and every
\* workflow as they are; a call of execute_workflow executes the object the
\* name holds when the call begins: it invokes and reports only tasks of that
\* object, and changes no task of any other object, an object registered
\* earlier under the same name included.
C11_Executed ==
    InCall =>
        /\ Range(invoked) \subseteq Keys(Tasks)
        /\ outcome = "returned" => DOMAIN results = Keys(Tasks)
C11_RegisterReplaces ==
    /\ []C11_Executed
    /\ [][\A o \in DOMAIN heap :
            register_workflow(o)
            => /\ DOMAIN workflows' = DOMAIN workflows \cup {heap[o].name}
               /\ workflows'[heap[o].name] = o
               /\ \A n \in DOMAIN workflows \ {heap[o].name} :
                    workflows'[n] = workflows[n]
               /\ heap' = heap]_vars
    /\ [][(pc = "idle" /\ pc' = "while") => workflow' = workflows[workflow_name']]_vars
    /\ [][pc # "idle"
            => \A o \in DOMAIN heap \ {workflow} : heap'[o] = heap[o]]_vars
C11_Witness ==
    /\ CallOver /\ outcome = "returned"
    /\ calls = 2
    /\ workflow = "w2"
    /\ workflows[workflow_name] = "w2"
    /\ "w1" \in DOMAIN heap
    /\ heap["w1"].name = heap["w2"].name
    /\ Keys(heap["w1"].tasks) = {"A"}
    /\ heap["w1"].tasks.val["A"].status = COMPLETED
    /\ Keys(heap["w2"].tasks) = {"B"}
    /\ invoked = <<"B">>

\* C12 as claimed: in a call every invoked action is given the same mapping,
\* which holds the writes of the actions invoked so far; it is the caller's
\* dict whenever the caller supplied one, an empty one included, so that the
\* caller's dict holds the writes of the call, and it is a fresh dict only
\* when no context was supplied.
C12_CallerContextShared ==
    InCall =>
        /\ Range(invoked) \subseteq dicts[context]
        /\ dicts.supplied => context = "caller" /\ Range(invoked) \subseteq dicts.caller
        /\ ~dicts.supplied => context = "fresh"

\* The place of a name in a list that holds it
IndexIn(seq, n) == CHOOSE i \in 1..Len(seq) : seq[i] = n
\* The task was pending with every dependency executed when the current scan
\* (the last one, when the call is over) began
ReadyAtScanStart(n) ==
    /\ start.val[n].status = PENDING
    /\ n \notin scan_start
    /\ start.val[n].dependencies \subseteq scan_start
\* Every dependency of every task was inserted before the task
InsertedInDependencyOrder(d) ==
    \A n \in Keys(d) : \A dep \in d.val[n].dependencies :
        dep \in Keys(d) /\ IndexIn(d.keys, dep) < IndexIn(d.keys, n)
\* A scan of the for loop is over
ScanOver ==
    \/ pc = "for" /\ pos > DictLen(Tasks)
    \/ pc = "while" /\ progress_made
    \/ CallOver

\* C13: the order of execution follows the insertion order: of two tasks
\* ready when a scan begins the one inserted earlier is invoked first; when
\* a scan is over, a pending task inserted after all its dependencies has
\* been executed as soon as they all have been (it runs in the scan of the
\* last of them); and a workflow whose tasks start pending and were inserted
\* in dependency order, the chain validate, payment, fulfill included, is
\* executed in insertion order in one scan, each task completed with the
\* value its action returned (failed when it raised).
C13_InsertionOrder ==
    InCall =>
        /\ \A n \in Keys(Tasks), m \in Keys(Tasks) :
              ( /\ ReadyAtScanStart(n) /\ ReadyAtScanStart(m)
                /\ IndexIn(start.keys, n) < IndexIn(start.keys, m)
                /\ m \in Range(invoked) )
              => /\ n \in Range(invoked)
                 /\ IndexIn(invoked, n) < IndexIn(invoked, m)
        /\ ScanOver =>
              \A n \in Keys(Tasks) :
                ( /\ start.val[n].status = PENDING
                  /\ start.val[n].dependencies \subseteq executed_tasks
                  /\ \A dep \in start.val[n].dependencies :
                        IndexIn(start.keys, dep) < IndexIn(start.keys, n) )
                => n \in executed_tasks
        /\ (CallOver /\ AllPending(start) /\ InsertedInDependencyOrder(start))
              => /\ outcome = "returned"
                 /\ invoked = start.keys
                 /\ scan_start = {}
                 /\ \A n \in Keys(start) :
                      IF Raises(start.val[n].action)
                      THEN results[n].status = FAILED
                      ELSE /\ results[n].status = COMPLETED
                           /\ results[n].result = ReturnValue(start.val[n].action)
C13_Witness ==
    /\ CallOver /\ outcome = "returned"
    /\ start.keys = <<"A", "B", "C">>
    /\ start.val["A"].dependencies = {}
    /\ start.val["B"].dependencies = {"A"}
    /\ start.val["C"].dependencies = {"B"}
    /\ invoked = <<"A", "B", "C">>
    /\ scan_start = {}
    /\ \A n \in Keys(start) :
        results[n] = [status |-> COMPLETED, result |-> "value", error |-> None]

\* C14: add_task under a name the workflow holds or not stores under that
\* name a pending task with the given action, no result, no error and the
\* given dependencies (none when the argument is omitted), whether or not
\* they name tasks of the workflow; the name keeps its place in the order
\* when it was held and is appended otherwise; every other task, every other
\* workflow and the registry are unchanged; get_task gives the stored task,
\* and None for a name the workflow does not hold.
C14_GetTask ==
    \A o \in DOMAIN heap : \A n \in TaskNames :
        IF n \in Keys(heap[o].tasks)
        THEN GetTask(heap[o], n) = heap[o].tasks.val[n]
        ELSE GetTask(heap[o], n) = None
C14_AddTaskReplaces ==
    /\ []C14_GetTask
    /\ [][\A o \in DOMAIN heap, name \in TaskNames, action \in Callables,
             dependencies \in AddDependencyArgs :
            add_task(o, name, action, dependencies)
            => /\ heap'[o].tasks.val[name] =
                    [name |-> name, action |-> action,
                     dependencies |-> IF dependencies.supplied
                                      THEN dependencies.names ELSE {},
                     status |-> PENDING, result |-> None, error |-> None]
               /\ Keys(heap'[o].tasks) = Keys(heap[o].tasks) \cup {name}
               /\ \A n \in Keys(heap[o].tasks) \ {name} :
                    heap'[o].tasks.val[n] = heap[o].tasks.val[n]
               /\ heap'[o].tasks.keys =
                    IF name \in Keys(heap[o].tasks)
                    THEN heap[o].tasks.keys
                    ELSE Append(heap[o].tasks.keys, name)
               /\ heap'[o].name = heap[o].name
               /\ \A x \in DOMAIN heap \ {o} : heap'[x] = heap[x]
               /\ workflows' = workflows]_vars
\* B was completed by a call that ran its dependency A before it; A, added
\* again afterwards with a dependency that is no task, is pending and B is
\* as it was.
C14_Witness ==
    /\ pc = "idle" /\ calls = 1
    /\ "w1" \in DOMAIN heap
    /\ heap["w1"].tasks.keys = <<"A", "B">>
    /\ heap["w1"].tasks.val["B"] =
            [name |-> "B", action |-> "returns_value", dependencies |-> {"A"},
             status |-> COMPLETED, result |-> "value", error |-> None]
    /\ heap["w1"].tasks.val["A"] =
            [name |-> "A", action |-> "raises", dependencies |-> {"C"},
             status |-> PENDING, result |-> None, error |-> None]

\* C15: execute_task always gives its caller a record: its status is success
\* or error, it holds a timestamp (the reading of the clock in that call),
\* its agent field is the name of the agent, and it is the error record,
\* with an error message and no result, exactly when _process_task raised,
\* and the success record, with a result and no error, otherwise.
C15_Record ==
    DOMAIN response # {}
    => /\ response.status \in {"success", "error"}
       /\ "timestamp" \in DOMAIN response
       /\ response.agent = agent.name
       /\ response.status = "error" <=> raised
       /\ response.status = "error"
            => "error" \in DOMAIN response /\ "result" \notin DOMAIN response
       /\ response.status = "success"
            => "result" \in DOMAIN response /\ "error" \notin DOMAIN response
C15_AlwaysReturnsRecord ==
    /\ []C15_Record
    /\ [][now' # now
            => /\ DOMAIN response' # {}
               /\ response'.timestamp = now
               /\ agent' = agent]_vars
C15_Witness ==
    /\ Constructed
    /\ agent.name = "Enterprise Agent"
    /\ agent.config # DefaultConfig
    /\ now = 2
    /\ raised
    /\ response.status = "error"
    /\ response.agent = "Enterprise Agent"

\* The names of the running tasks of a workflow
RunningIn(w) == {n \in Keys(w.tasks) : w.tasks.val[n].status = RUNNING}

\* C16: the scheduler runs one action at a time: a task is running only
\* while its own action is being executed (no task of any workflow is
\* running otherwise, so at most one is), and an action is invoked only in a
\* state where no task is running, the one invoked before being completed or
\* failed by then.
C16_OneRunning ==
    /\ \A o \in DOMAIN heap :
          RunningIn(heap[o]) =
            IF pc = "action" /\ o = workflow
            THEN {heap[o].tasks.keys[pos]} ELSE {}
    /\ \A o \in DOMAIN heap : Cardinality(RunningIn(heap[o])) <= 1
C16_Sequential ==
    /\ []C16_OneRunning
    /\ [][Len(invoked') > Len(invoked)
            => /\ \A o \in DOMAIN heap : RunningIn(heap[o]) = {}
               /\ \A n \in Range(invoked) :
                    Tasks.val[n].status \in {COMPLETED, FAILED}
               /\ pc' = "action"]_vars
C16_Witness ==
    /\ pc = "action"
    /\ DictLen(Tasks) = 3
    /\ Len(invoked) = 2
    /\ Tasks.val[invoked[1]].status = FAILED
    /\ Tasks.val[invoked[2]].status = RUNNING
    /\ \E n \in Keys(Tasks) : Tasks.val[n].status = PENDING

\* C17: a step of execute_workflow changes the status of a task only from
\* pending to running, from running to completed when its action returned
\* and from running to failed when it raised; it adds and removes no task.
\* So the engine never assigns skipped, never changes a completed, failed or
\* skipped task, and never makes a task pending again.
C17_Transitions ==
    [][pc # "idle"
        => \A o \in DOMAIN heap :
            /\ heap'[o].tasks.keys = heap[o].tasks.keys
            /\ \A n \in Keys(heap[o].tasks) :
                LET task == heap[o].tasks.val[n]
                    status == heap'[o].tasks.val[n].status
                IN  \/ status = task.status
                    \/ task.status = PENDING /\ status = RUNNING
                    \/ /\ task.status = RUNNING /\ status = COMPLETED
                       /\ ~Raises(task.action)
                    \/ /\ task.status = RUNNING /\ status = FAILED
                       /\ Raises(task.action)]_vars
C17_Witness ==
    /\ CallOver
    /\ DictLen(Tasks) = 2
    /\ \E n \in Keys(Tasks) :
        start.val[n].status = SKIPPED /\ Tasks.val[n].status = SKIPPED
    /\ \E n \in Keys(Tasks) :
        /\ start.val[n].status = PENDING
        /\ n \in Range(invoked)
        /\ Tasks.val[n].status = FAILED

\* C18: whenever execute_workflow returns a report, whatever the workflow
\* and the statuses its tasks started with, every task of the workflow is in
\* executed_tasks, no task is pending or running, and the report has one
\* entry per task of the workflow, holding the status, the result and the
\* error the task has then.
C18_ReturnsWhenAllExecuted ==
    (pc = "idle" /\ outcome = "returned")
    => /\ executed_tasks = Keys(Tasks)
       /\ \A n \in Keys(Tasks) : Tasks.val[n].status \notin {PENDING, RUNNING}
       /\ DOMAIN results = Keys(Tasks)
       /\ \A n \in Keys(Tasks) :
            results[n] = [status |-> Tasks.val[n].status,
                          result |-> Tasks.val[n].result,
                          error |-> Tasks.val[n].error]
C18_Witness ==
    /\ pc = "idle" /\ outcome = "returned"
    /\ DictLen(Tasks) = 2
    /\ executed_tasks = {"A", "B"}
    /\ \E n \in Keys(Tasks) : results[n].status = FAILED
    /\ \E n \in Keys(Tasks) :
        results[n].status = COMPLETED /\ results[n].result = None

\* The tasks on a cycle or with a name that is no task among the names they
\* depend on, directly or not
OnCycleOrDangling(d) ==
    {n \in Keys(d) :
        OnCycle(d, n) \/ ~(TransitiveDependencies(d, n) \subseteq Keys(d))}
\* The tasks that can never become ready: among the names they depend on,
\* directly or not, is a name that is no task or a task on a cycle
NeverReady(d) ==
    {n \in Keys(d) :
        \E m \in TransitiveDependencies(d, n) : m \notin Keys(d) \/ OnCycle(d, m)}

\* C19 as claimed: for a workflow whose tasks all start pending the call
\* ends in the RuntimeError exactly when some task is on a cycle or depends,
\* directly or not, on a name that is no task, and the list of the error is
\* then exactly those tasks, in insertion order.
C19_ListIsCycleOrDangling ==
    (CallOver /\ AllPending(start))
    => /\ outcome = "RuntimeError" <=> OnCycleOrDangling(start) # {}
       /\ outcome = "RuntimeError"
            => remaining =
                 SelectSeq(start.keys, LAMBDA k : k \in OnCycleOrDangling(start))

\* C19, amended: for a workflow whose tasks all start pending the call ends
\* in the RuntimeError exactly when some task is on a cycle or depends,
\* directly or not, on a name that is no task (never for an acyclic, fully
\* defined graph, whatever the insertion order and whichever actions raise);
\* the list of the error is then, in insertion order, exactly the tasks that
\* depend, directly or not, on a name that is no task or on a task on a
\* cycle: the tasks on a cycle and also the tasks that depend on one without
\* being on a cycle themselves.
C19_ListIsNeverReady ==
    (CallOver /\ AllPending(start))
    => /\ outcome = "RuntimeError" <=> OnCycleOrDangling(start) # {}
       /\ (Acyclic(start) /\ FullyDefined(start)) => outcome = "returned"
       /\ outcome = "RuntimeError"
            => remaining =
                 SelectSeq(start.keys, LAMBDA k : k \in NeverReady(start))
C19_Witness ==
    /\ CallOver /\ AllPending(start) /\ outcome = "RuntimeError"
    /\ start.keys = <<"A", "B", "C">>
    /\ start.val["A"].dependencies = {"A"}
    /\ start.val["B"].dependencies = {"A"}
    /\ start.val["C"].dependencies = {}
    /\ Raises(start.val["C"].action)
    /\ invoked = <<"C">>
    /\ remaining = <<"A", "B">>

\* C20 as claimed: when the call ends in the RuntimeError, every task that
\* is not in the list of the error was invoked in the call and is completed
\* or failed with the result or the error of its action and its write in
\* the context, and every task in the list is pending with no result and no
\* error.
C20_MaximalProgress ==
    (CallOver /\ outcome = "RuntimeError")
    => \A n \in Keys(Tasks) :
        IF n \in Range(remaining)
        THEN /\ Tasks.val[n].status = PENDING
             /\ Tasks.val[n].result = None
             /\ Tasks.val[n].error = None
        ELSE /\ n \in Range(invoked)
             /\ n \in dicts[context]
             /\ Tasks.val[n].status =
                    IF Raises(Tasks.val[n].action) THEN FAILED ELSE COMPLETED
             /\ Tasks.val[n].result =
                    IF Raises(Tasks.val[n].action)
                    THEN None ELSE ReturnValue(Tasks.val[n].action)
             /\ Tasks.val[n].error =
                    IF Raises(Tasks.val[n].action)
                    THEN Message(Tasks.val[n].action) ELSE None

\* C21: in a call no action is invoked twice, whether it returned or raised;
\* a call that returns on a workflow whose tasks all started pending has
\* invoked the action of every task exactly once; and every scan of the for
\* loop after which the loop goes on has added a task to executed_tasks,
\* the scan that ends in the RuntimeError being the only one that adds none.
C21_Invoked ==
    InCall =>
        /\ \A i \in 1..Len(invoked), j \in 1..Len(invoked) :
              invoked[i] = invoked[j] => i = j
        /\ (CallOver /\ outcome = "returned" /\ AllPending(start))
              => /\ Range(invoked) = Keys(start)
                 /\ Len(invoked) = Cardinality(Keys(start))
        /\ scan_start \subseteq executed_tasks
        /\ (pc = "while" /\ progress_made) => scan_start # executed_tasks
        /\ (CallOver /\ outcome = "returned" /\ Keys(start) # {})
              => scan_start # executed_tasks
        /\ (CallOver /\ outcome = "RuntimeError") => scan_start = executed_tasks
C21_InvokedOnce ==
    /\ []C21_Invoked
    /\ [][(pc = "for" /\ pos > DictLen(Tasks))
            => IF scan_start # executed_tasks
               THEN pc' = "while" /\ outcome' = "running"
               ELSE pc' = "idle" /\ outcome' = "RuntimeError"]_vars
C21_Witness ==
    /\ CallOver /\ outcome = "returned" /\ AllPending(start)
    /\ start.keys = <<"C", "B", "A">>
    /\ start.val["C"].dependencies = {"B"}
    /\ start.val["B"].dependencies = {"A"}
    /\ Raises(start.val["A"].action)
    /\ Raises(start.val["B"].action)
    /\ invoked = <<"A", "B", "C">>
    /\ scan_start = {"A", "B"}

\* The requests the call made that failed
FailedRequests == {i \in 1..Len(request.sent) : request.sent[i] \in RequestErrors}

\* C22 as claimed: a call of get or post makes at most retry_attempts
\* requests; every request before the last one it made failed; the call
\* ends either returning the json of its last request, which succeeded, or
\* raising the error of its last request, after retry_attempts requests
\* that all failed; it never ends in another way.
C22_RetriesThenRaises ==
    request.outcome # "none"
    => /\ Len(request.sent) <= client.retry_attempts
       /\ \A i \in 1..(Len(request.sent) - 1) : i \in FailedRequests
       /\ request.pc = "idle"
            => /\ request.outcome \in {"returned", "raised"}
               /\ request.sent # <<>>
               /\ request.outcome = "returned"
                    => /\ request.sent[Len(request.sent)] = "response"
                       /\ request.value = "json"
               /\ request.outcome = "raised"
                    => /\ Len(request.sent) = client.retry_attempts
                       /\ Len(request.sent) \in FailedRequests
                       /\ request.value = request.sent[Len(request.sent)]
       /\ request.pc = "loop"
            => /\ request.outcome = "running"
               /\ request.attempt = Len(request.sent)
               /\ \A i \in 1..Len(request.sent) : i \in FailedRequests

====
